---- MODULE Spec2Model ----
(***************************************************************************)
(* BlueBOLT CV2 protocol client (custom_components/bluebolt/device.py):    *)
(* one BlueBoltDevice session, the coroutines running its public           *)
(* operations, and the UDP/XML exchanges they perform.                     *)
(*                                                                         *)
(* A coroutine runs atomically between two awaits.  The only awaits of     *)
(* device.py are the two run_in_executor calls of _send_command (sendto    *)
(* and recvfrom), so every operation is at most three steps: the call up   *)
(* to the pending sendto, the completed sendto up to the pending recvfrom, *)
(* and the completed recvfrom up to the operation's return.                *)
(*                                                                         *)
(* On top of the session: the entry setup (__init__.py), the polling       *)
(* coordinator (coordinator.py) and one outlet switch (switch.py), which   *)
(* call the operations of the session and resume when they return.         *)
(***************************************************************************)
EXTENDS Integers, Sequences, FiniteSets, TLC

VARIABLES device_class, device_id, device_type, firmware_version, tasks, connected,
          entry, coordinator, switch, owner

vars == <<device_class, device_id, device_type, firmware_version, tasks, connected,
          entry, coordinator, switch, owner>>

\* The state of the integration around the session.
integration == <<entry, coordinator, switch, owner>>

identity == <<device_class, device_id, device_type>>

-----------------------------------------------------------------------------
(* Bounds of the model. *)

\* Number of coroutines that may run operations of the session at a time.
MaxTasks == 2

\* Number of turn-on / turn-off commands given to the outlet switch.
MaxCommands == 2

\* Outlet ids offered to set_outlet are 0..MaxOutletId.
MaxOutletId == 9

Tasks == 1..MaxTasks

OutletIds == 0..MaxOutletId

-----------------------------------------------------------------------------
(* Python values. *)

\* None, for the optional strings of the session and of XML text.
None == "None"

\* Truthiness of an optional string: None and "" are falsy.
Truthy(v) == v # None /\ v # ""

\* dict.get(key, default)
Get(d, key, default) == IF key \in DOMAIN d THEN d[key] ELSE default

\* {}
EmptyDict == <<>>

-----------------------------------------------------------------------------
(* const.py *)

DEVICE_TYPE_M4315 == "M4315-PRO"

DEVICE_TYPE_M4320 == "M4320-PRO"

DEVICE_TYPE_MB1500 == "MB1500"

DEVICE_TYPE_F1500 == "F1500-UPS"

DEVICE_CLASS_MAP ==
    ("km4315" :> DEVICE_TYPE_M4315) @@ ("km4320" :> DEVICE_TYPE_M4320) @@
    ("kmb1500" :> DEVICE_TYPE_MB1500) @@ ("kf1500" :> DEVICE_TYPE_F1500)

\* (mutant) the MB1500 profile has neither count
DEVICE_CONFIG_NoCount ==
    (DEVICE_TYPE_M4315 :>
        [model |-> "M4315-PRO", manufacturer |-> "Panamax", outlets |-> 8,
         has_temperature_sensor |-> TRUE, has_ups_sensors |-> FALSE]) @@
    (DEVICE_TYPE_M4320 :>
        [model |-> "M4320-PRO", manufacturer |-> "Panamax", outlets |-> 8,
         has_temperature_sensor |-> TRUE, has_ups_sensors |-> FALSE]) @@
    (DEVICE_TYPE_MB1500 :>
        [model |-> "MB1500", manufacturer |-> "Panamax",
         has_temperature_sensor |-> FALSE, has_ups_sensors |-> TRUE]) @@
    (DEVICE_TYPE_F1500 :>
        [model |-> "F1500-UPS", manufacturer |-> "Furman", outlet_banks |-> 4,
         has_temperature_sensor |-> FALSE, has_ups_sensors |-> TRUE])

DEVICE_CONFIG ==
    (DEVICE_TYPE_M4315 :>
        [model |-> "M4315-PRO", manufacturer |-> "Panamax", outlets |-> 8,
         has_temperature_sensor |-> TRUE, has_ups_sensors |-> FALSE]) @@
    (DEVICE_TYPE_M4320 :>
        [model |-> "M4320-PRO", manufacturer |-> "Panamax", outlets |-> 8,
         has_temperature_sensor |-> TRUE, has_ups_sensors |-> FALSE]) @@
    (DEVICE_TYPE_MB1500 :>
        [model |-> "MB1500", manufacturer |-> "Panamax", outlet_banks |-> 4,
         has_temperature_sensor |-> FALSE, has_ups_sensors |-> TRUE]) @@
    (DEVICE_TYPE_F1500 :>
        [model |-> "F1500-UPS", manufacturer |-> "Furman", outlet_banks |-> 4,
         has_temperature_sensor |-> FALSE, has_ups_sensors |-> TRUE])

-----------------------------------------------------------------------------
(* xml.etree.ElementTree, as device.py uses it.  A parsed document is the  *)
(* sequence of its elements in document order; element 1 is the root and   *)
(* every other element names its parent by index.                          *)

El(tag, parent, attrs, text) ==
    [tag |-> tag, parent |-> parent, attrs |-> attrs, text |-> text]

NoAttrs == <<>>

\* The members of a set of element indices in document order.
RECURSIVE Ascending(_)
Ascending(S) ==
    IF S = {} THEN <<>>
    ELSE LET m == CHOOSE x \in S : \A y \in S : x <= y
         IN <<m>> \o Ascending(S \ {m})

\* root.findall(".//tag"): the elements below the root with that tag, in
\* document order.  The root itself is never selected by ".//".
FindAll(doc, tag) == Ascending({i \in 2..Len(doc) : doc[i].tag = tag})

\* elem.find("tag") on element i: its first direct child with that tag, 0 for None.
FindChild(doc, i, tag) ==
    LET hits == Ascending({j \in 2..Len(doc) : doc[j].parent = i /\ doc[j].tag = tag})
    IN IF hits = <<>> THEN 0 ELSE hits[1]

\* elem.get(name): the attribute, None when absent.
Attr(el, name) == Get(el.attrs, name, None)

\* root.findtext(".//tag", default): the text of the first such element, ""
\* when that element has no text, default when there is no such element.
FindText(doc, tag, default) ==
    LET hits == FindAll(doc, tag)
    IN IF hits = <<>> THEN default
       ELSE IF doc[hits[1]].text = None THEN "" ELSE doc[hits[1]].text

\* (mutant) any ack element is taken, whatever its xid
HasAckAnyXid(doc, xid) == \E i \in 2..Len(doc) : doc[i].tag = "ack"

\* root.find(".//ack[@xid='x']") is not None
HasAck(doc, xid) ==
    \E i \in 2..Len(doc) : doc[i].tag = "ack" /\ Attr(doc[i], "xid") = xid

-----------------------------------------------------------------------------
(* What the network can hand to one exchange.  The text of a datagram is   *)
(* kept as what ET.fromstring makes of it: nothing (the empty string), a   *)
(* ParseError, or a document.                                              *)

\* What _send_command returns: None, or the decoded text of the datagram.
NoResponse == [kind |-> "None", empty |-> TRUE, wellformed |-> FALSE, doc |-> <<>>]

Text(empty, wellformed, doc) ==
    [kind |-> "str", empty |-> empty, wellformed |-> wellformed, doc |-> doc]

Root == El("device", 0, [class |-> "cv2", id |-> "0a1b2c3d4e5f"], None)

KnownClasses == DOMAIN DEVICE_CLASS_MAP

SubDeviceIds == {"42", "7"}

\* <device><family><kids class=c><k>id</k></kids></family></device>
KidsDoc(c, id) ==
    <<Root, El("family", 1, NoAttrs, None),
      El("kids", 2, [class |-> c], None), El("k", 3, NoAttrs, id)>>

\* Two sub-devices, each <kids class=c><k>id</k></kids>; id None is <k/>.
TwoKidsDoc(c1, id1, c2, id2) ==
    <<Root, El("kids", 1, [class |-> c1], None), El("k", 2, NoAttrs, id1),
      El("kids", 1, [class |-> c2], None), El("k", 4, NoAttrs, id2)>>

DiscoveryDocs ==
    {KidsDoc(c, id) : c \in KnownClasses, id \in SubDeviceIds} \cup
    { TwoKidsDoc("km4315", "42", "kf1500", "7"),
      TwoKidsDoc("cv2", "1", "km4320", "42"),
      TwoKidsDoc("kf1500", None, "km4315", "42"),
      \* <kids class="km4320"/> without an identifier, then a complete one
      <<Root, El("kids", 1, [class |-> "km4320"], None),
        El("kids", 1, [class |-> "kmb1500"], None), El("k", 3, NoAttrs, "7")>>,
      \* the identifier is not a direct child of kids
      <<Root, El("kids", 1, [class |-> "km4315"], None),
        El("x", 2, NoAttrs, None), El("k", 3, NoAttrs, "42")>>,
      \* <k/><k>7</k>: find("k") is the first k
      <<Root, El("kids", 1, [class |-> "kf1500"], None),
        El("k", 2, NoAttrs, None), El("k", 2, NoAttrs, "7")>>,
      \* kids without a class attribute
      <<Root, El("kids", 1, NoAttrs, None), El("k", 2, NoAttrs, "42")>>,
      \* the root element itself is the kids element
      <<El("kids", 0, [class |-> "km4315"], None), El("k", 1, NoAttrs, "42")>>,
      KidsDoc("cv2", "42"),
      \* <k>4&amp;2</k>: an identifier with a markup character
      KidsDoc("kmb1500", "4&2"),
      <<Root>> }

\* line 244: the transaction identifier of an outlet command
Xid(outlet_id) == "set_outlet_" \o ToString(outlet_id)

AckDocs ==
    {<<Root, El("ack", 1, [xid |-> Xid(k)], None)>> : k \in OutletIds} \cup
    { <<Root, El("status", 1, NoAttrs, None), El("ack", 2, [xid |-> Xid(3)], None)>>,
      <<Root, El("ack", 1, [xid |-> Xid(4)], None), El("ack", 1, [xid |-> Xid(1)], None)>>,
      <<El("ack", 0, [xid |-> Xid(3)], None)>>,
      <<El("ack", 0, [xid |-> Xid(1)], None)>>,
      <<Root, El("ack", 1, NoAttrs, None)>>,
      <<Root, El("nak", 1, [xid |-> Xid(1)], None)>> }

InfoDocs ==
    { <<Root, El("info", 1, NoAttrs, None), El("fwver", 2, NoAttrs, "1.0")>>,
      <<Root, El("fwver", 1, NoAttrs, "2.0"), El("fwver", 1, NoAttrs, "1.0")>>,
      <<Root, El("fwver", 1, NoAttrs, None)>>,
      <<El("fwver", 0, NoAttrs, "1.0")>> }

StatusDocs ==
    { <<Root, El("voltage", 1, NoAttrs, "120.5"), El("amperage", 1, NoAttrs, "2.1"),
        El("outlet", 1, [id |-> "1"], "1"), El("outlet", 1, [id |-> "2"], "0")>>,
      <<Root, El("voltage", 1, NoAttrs, "0"), El("voltageout", 1, NoAttrs, "120.5"),
        El("battlevel", 1, NoAttrs, "1"), El("loadlevel", 1, NoAttrs, "75"),
        El("pwrcond", 1, NoAttrs, "0"), El("outlet", 1, [id |-> "0"], "1"),
        El("outlet", 1, NoAttrs, "1"), El("outlet", 1, [id |-> "-1"], "1"),
        El("outlet", 1, [id |-> "3"], "on"), El("outlet", 1, [id |-> "3"], None)>>,
      <<Root, El("voltage", 1, NoAttrs, "abc")>>,
      <<Root, El("wattage", 1, NoAttrs, None)>>,
      <<Root, El("pwrcond", 1, NoAttrs, "2.1")>>,
      <<Root, El("outlet", 1, [id |-> "x"], "1")>>,
      \* the root element itself is a UPS element
      <<El("voltageout", 0, NoAttrs, "120.5"), El("pwrcond", 1, NoAttrs, "1")>>,
      \* two outlet elements of the same id
      <<Root, El("outlet", 1, [id |-> "1"], "1"), El("outlet", 1, [id |-> "1"], "0"),
        El("outlet", 1, [id |-> "2"], "0"), El("outlet", 1, [id |-> "2"], "1")>>,
      \* the root element itself is an outlet element
      <<El("outlet", 0, [id |-> "2"], "1"), El("outlet", 1, [id |-> "1"], "1")>> }

Docs == DiscoveryDocs \cup AckDocs \cup InfoDocs \cup StatusDocs

\* How a pending recvfrom ends: socket.timeout, another exception, bytes that
\* do not decode as UTF-8, or a text.
RecvOutcomes ==
    { [kind |-> "timeout"], [kind |-> "error"], [kind |-> "undecodable"] } \cup
    { [kind |-> "data", text |-> Text(TRUE, FALSE, <<>>)],
      [kind |-> "data", text |-> Text(FALSE, FALSE, <<>>)] } \cup
    { [kind |-> "data", text |-> Text(FALSE, TRUE, d)] : d \in Docs }

\* lines 75-95: the response of _send_command for an ended recvfrom
ResponseOf(outcome) == IF outcome.kind = "data" THEN outcome.text ELSE NoResponse

\* `if not response`
NotResponse(response) == response.kind = "None" \/ response.empty

\* The inputs of the interleaved specification: an outlet id below every
\* range, one inside every range and one inside the range of the eight-outlet
\* families only, and one response or two of each kind.
ConcurrentIds == {0, 1, 5}

ConcurrentOutcomes ==
    { [kind |-> "timeout"],
      [kind |-> "data", text |-> Text(FALSE, FALSE, <<>>)] } \cup
    { [kind |-> "data", text |-> Text(FALSE, TRUE, d)] :
        d \in { KidsDoc("km4315", "42"), KidsDoc("kf1500", "7"),
                TwoKidsDoc("kf1500", None, "cv2", "1"),
                <<Root, El("fwver", 1, NoAttrs, "1.0")>>,
                <<Root, El("fwver", 1, NoAttrs, "2.0"), El("ack", 1, [xid |-> Xid(1)], None)>> } }

-----------------------------------------------------------------------------
(* Command framing, lines 57-60 and the message literals of the callers.   *)
(* A message is the element sequence of its XML fragment, parents counted  *)
(* within the fragment (0: an element at the top of the fragment).         *)

SendFamily == <<El("command", 0, NoAttrs, None), El("sendfamily", 1, NoAttrs, None)>>

SendInfo == <<El("command", 0, NoAttrs, None), El("sendinfo", 1, NoAttrs, None)>>

SendStatus == <<El("command", 0, NoAttrs, None), El("sendstatus", 1, NoAttrs, None)>>

\* lines 243-244
OutletMessage(outlet_id, state) ==
    <<El("command", 0, [xid |-> Xid(outlet_id)], None),
      El("outlet", 1, [id |-> ToString(outlet_id)], IF state THEN "1" ELSE "0")>>

\* (mutant) every command is addressed to the bridge class
XmlCommandToBridge(dclass, did, message) ==
    <<El("device", 0, [class |-> "cv2", id |-> did], None)>> \o
    [i \in 1..Len(message) |-> [message[i] EXCEPT !.parent = @ + 1]]

\* lines 57-60: <device class=.. id=..>message</device>, the two values put
\* between the quotes as they are
XmlCommand(dclass, did, message) ==
    <<El("device", 0, [class |-> dclass, id |-> did], None)>> \o
    [i \in 1..Len(message) |-> [message[i] EXCEPT !.parent = @ + 1]]

\* line 19: the bridge identifier the session is constructed with
mac == "0A1B2C3D4E5F"

\* str.lower() on the identifiers of the model
Lower == ("0A1B2C3D4E5F" :> "0a1b2c3d4e5f") @@ ("0a1b2c3d4e5f" :> "0a1b2c3d4e5f")

\* lines 32 and 36: the bridge identifier, lowercased at construction
cv2_id == Lower[mac]

-----------------------------------------------------------------------------
(* The coroutines.  pc: "idle" (no call), "sendto" / "recvfrom" (suspended *)
(* in _send_command on that executor call), "done" (returned `result`),    *)
(* "raised" (left by an exception), "cancelled" (left by the CancelledError *)
(* thrown into its await).  cmds: the commands handed to                   *)
(* _send_command; sent: the datagrams sendto has put on the wire; opened,  *)
(* recvs: how many sockets it has opened and recvfrom calls it has made;   *)
(* response: what _send_command returned to the caller, once it has.       *)

IdleTask ==
    [op |-> "none", pc |-> "idle", args |-> <<>>, dtype |-> None,
     cmds |-> <<>>, sent |-> <<>>, sock |-> "None", opened |-> 0, recvs |-> 0,
     response |-> <<>>, result |-> <<>>]

\* A fresh call of `op` with `args`; dtype is self.device_type as the call reads it.
Called(op, args, dtype) == [IdleTask EXCEPT !.op = op, !.args = args, !.dtype = dtype]

\* (mutant) the finally clause does not close
NeverClosed(sock) == sock

\* lines 96-98: `finally: if sock: sock.close()`
Closed(sock) == IF sock = "open" THEN "closed" ELSE sock

\* `return value`; the socket, if one was opened, was closed by the finally
\* of _send_command before the caller resumed.
Returned(r, value) == [r EXCEPT !.pc = "done", !.result = <<value>>, !.sock = Closed(r.sock)]

\* An exception leaving the operation.
Raised(r) == [r EXCEPT !.pc = "raised", !.sock = Closed(r.sock)]

\* CancelledError thrown into the await of _send_command: no except clause
\* of the transport or of the operations catches it, the finally clause runs.
Cancelled(r) == [r EXCEPT !.pc = "cancelled", !.sock = Closed(r.sock)]

Session == <<device_class, device_id, device_type, firmware_version, connected>>

\* The operation of task t ends in record r and leaves the session alone.
Ends(t, r) == tasks' = [tasks EXCEPT ![t] = r] /\ UNCHANGED Session

-----------------------------------------------------------------------------
(* connect, lines 100-137 *)

\* (mutant) the identifier text is not tested
AdoptableAnyText(doc, i) ==
    /\ Attr(doc[i], "class") \in DOMAIN DEVICE_CLASS_MAP
    /\ FindChild(doc, i, "k") # 0

\* lines 117-120: a kids element that connect adopts
Adoptable(doc, i) ==
    /\ Attr(doc[i], "class") \in DOMAIN DEVICE_CLASS_MAP
    /\ LET k == FindChild(doc, i, "k") IN k # 0 /\ Truthy(doc[k].text)

\* (mutant) the loop does not return on its first match: the last one stays
LastAdopted(doc) ==
    LET hits == Ascending({i \in 2..Len(doc) : doc[i].tag = "kids" /\ Adoptable(doc, i)})
    IN IF hits = <<>> THEN 0 ELSE hits[Len(hits)]

\* lines 116-130: the kids element the loop returns on, 0 when it runs out
FirstAdopted(doc) ==
    LET hits == Ascending({i \in 2..Len(doc) : doc[i].tag = "kids" /\ Adoptable(doc, i)})
    IN IF hits = <<>> THEN 0 ELSE hits[1]

\* (mutant) a rediscovery keeps the class and family it holds and takes the
\* new identifier
DiscoveredKeepsClass(doc, i) ==
    [device_class |-> IF device_class # None THEN device_class ELSE Attr(doc[i], "class"),
     device_id |-> doc[FindChild(doc, i, "k")].text,
     device_type |-> IF device_type # None THEN device_type
                     ELSE DEVICE_CLASS_MAP[Attr(doc[i], "class")]]

\* lines 121-123: the three fields connect assigns from kids element i
Discovered(doc, i) ==
    [device_class |-> Attr(doc[i], "class"),
     device_id |-> doc[FindChild(doc, i, "k")].text,
     device_type |-> DEVICE_CLASS_MAP[Attr(doc[i], "class")]]

\* (mutant) the parse is not guarded
CatchesNothing == {}

\* lines 135-137: the exceptions connect catches around the parse
ConnectCatches == {"ParseError"}

\* (mutant) a discovery that finds nothing forgets the recorded device
ConnectResumeResets(t, r, response) ==
    IF ~NotResponse(response) /\ response.wellformed /\ FirstAdopted(response.doc) # 0
    THEN LET doc == response.doc
             i == FirstAdopted(doc)
         IN /\ device_class' = Discovered(doc, i).device_class
            /\ device_id' = Discovered(doc, i).device_id
            /\ device_type' = Discovered(doc, i).device_type
            /\ connected' = TRUE
            /\ tasks' = [tasks EXCEPT ![t] = Returned(r, TRUE)]
            /\ UNCHANGED firmware_version
    ELSE /\ device_class' = None
         /\ device_id' = None
         /\ device_type' = None
         /\ tasks' = [tasks EXCEPT ![t] = Returned(r, FALSE)]
         /\ UNCHANGED <<firmware_version, connected>>

\* lines 110-137: connect resumes with the response of _send_command
ConnectResume(t, r, response) ==
    IF NotResponse(response) THEN Ends(t, Returned(r, FALSE))
    ELSE IF ~response.wellformed
    THEN Ends(t, IF "ParseError" \in ConnectCatches THEN Returned(r, FALSE) ELSE Raised(r))
    ELSE LET doc == response.doc
             i == FirstAdopted(doc)
         IN IF i = 0 THEN Ends(t, Returned(r, FALSE))
            ELSE /\ device_class' = Discovered(doc, i).device_class
                 /\ device_id' = Discovered(doc, i).device_id
                 /\ device_type' = Discovered(doc, i).device_type
                 /\ connected' = TRUE
                 /\ tasks' = [tasks EXCEPT ![t] = Returned(r, TRUE)]
                 /\ UNCHANGED firmware_version

-----------------------------------------------------------------------------
(* get_device_info, lines 139-165 *)

\* (mutant) the guard is missing
NeverNotInitialized(did) == FALSE

\* lines 145, 174, 230: `if not self.device_id`
NotInitialized(did) == ~Truthy(did)

InfoCatches == {"ParseError"}

\* (mutant) a response that does not parse clears the stored firmware
InfoResumeClears(t, r, response) ==
    IF NotResponse(response) THEN Ends(t, Returned(r, EmptyDict))
    ELSE IF ~response.wellformed
    THEN /\ firmware_version' = None
         /\ tasks' = [tasks EXCEPT ![t] = Returned(r, EmptyDict)]
         /\ UNCHANGED <<device_class, device_id, device_type, connected>>
    ELSE LET info == [firmware |-> FindText(response.doc, "fwver", "Unknown")]
         IN /\ firmware_version' = info.firmware
            /\ tasks' = [tasks EXCEPT ![t] = Returned(r, info)]
            /\ UNCHANGED <<device_class, device_id, device_type, connected>>

\* lines 153-165
InfoResume(t, r, response) ==
    IF NotResponse(response) THEN Ends(t, Returned(r, EmptyDict))
    ELSE IF ~response.wellformed
    THEN Ends(t, IF "ParseError" \in InfoCatches THEN Returned(r, EmptyDict) ELSE Raised(r))
    ELSE LET info == [firmware |-> FindText(response.doc, "fwver", "Unknown")]
         IN /\ firmware_version' = info.firmware
            /\ tasks' = [tasks EXCEPT ![t] = Returned(r, info)]
            /\ UNCHANGED <<device_class, device_id, device_type, connected>>

-----------------------------------------------------------------------------
(* get_status, lines 167-218 *)

\* float(text) for the texts the model offers, in tenths; any other text
\* raises ValueError.
FloatOf == ("0" :> 0) @@ ("1" :> 10) @@ ("120.5" :> 1205) @@ ("2.1" :> 21) @@ ("75" :> 750)

\* int(text) for the texts the model offers; any other text raises ValueError.
IntOf ==
    ("0" :> 0) @@ ("1" :> 1) @@ ("2" :> 2) @@ ("3" :> 3) @@ ("-1" :> -1) @@ ("75" :> 75)

\* lines 189-194: key of the snapshot and the element it is read from
BaseFields ==
    ("voltage" :> "voltage") @@ ("current" :> "amperage") @@ ("power" :> "wattage") @@
    ("apparent_power" :> "pwrva") @@ ("power_factor" :> "pwrfact") @@
    ("temperature" :> "temperature")

\* lines 198-203
UpsFloatFields ==
    ("voltage_out" :> "voltageout") @@ ("battery_level" :> "battlevel") @@
    ("load_level" :> "loadlevel")

\* lines 204-205
UpsIntFields == ("power_condition" :> "pwrcond")

\* (mutant) every element counts as present
PresentAlways(doc, tag) == TRUE

\* root.find(".//tag") is not None
Present(doc, tag) == \E i \in 2..Len(doc) : doc[i].tag = tag

\* (mutant) the loop keeps id 0 as well
RECURSIVE OutletsOfNonNegative(_, _, _)
OutletsOfNonNegative(doc, elems, outlets) ==
    IF elems = <<>> THEN outlets
    ELSE LET e == doc[Head(elems)]
             outlet_id == IntOf[Get(e.attrs, "id", "0")]
         IN OutletsOfNonNegative(doc, Tail(elems),
                      IF outlet_id >= 0
                      THEN [k \in DOMAIN outlets \cup {outlet_id} |->
                               IF k = outlet_id THEN e.text = "1" ELSE outlets[k]]
                      ELSE outlets)

\* lines 208-211: the outlets dict after the loop has run over `elems`
RECURSIVE OutletsOf(_, _, _)
OutletsOf(doc, elems, outlets) ==
    IF elems = <<>> THEN outlets
    ELSE LET e == doc[Head(elems)]
             outlet_id == IntOf[Get(e.attrs, "id", "0")]
         IN OutletsOf(doc, Tail(elems),
                      IF outlet_id > 0
                      THEN [k \in DOMAIN outlets \cup {outlet_id} |->
                               IF k = outlet_id THEN e.text = "1" ELSE outlets[k]]
                      ELSE outlets)

\* lines 189-211: some float() or int() of the decode raises ValueError
StatusValueError(doc) ==
    \/ \E k \in DOMAIN BaseFields : FindText(doc, BaseFields[k], "0") \notin DOMAIN FloatOf
    \/ \E k \in DOMAIN UpsFloatFields :
          Present(doc, UpsFloatFields[k]) /\ FindText(doc, UpsFloatFields[k], "0") \notin DOMAIN FloatOf
    \/ \E k \in DOMAIN UpsIntFields :
          Present(doc, UpsIntFields[k]) /\ FindText(doc, UpsIntFields[k], "0") \notin DOMAIN IntOf
    \/ \E i \in 2..Len(doc) :
          doc[i].tag = "outlet" /\ Get(doc[i].attrs, "id", "0") \notin DOMAIN IntOf

\* (mutant) a base field is read only when its element is there
StatusOfNoDefaults(doc) ==
    LET base == [k \in {x \in DOMAIN BaseFields : Present(doc, BaseFields[x])} |->
                    FloatOf[FindText(doc, BaseFields[k], "0")]]
        upsf == [k \in {x \in DOMAIN UpsFloatFields : Present(doc, UpsFloatFields[x])} |->
                    FloatOf[FindText(doc, UpsFloatFields[k], "0")]]
        upsi == [k \in {x \in DOMAIN UpsIntFields : Present(doc, UpsIntFields[x])} |->
                    IntOf[FindText(doc, UpsIntFields[k], "0")]]
    IN base @@ upsf @@ upsi @@ ("outlets" :> OutletsOf(doc, FindAll(doc, "outlet"), <<>>))

\* lines 188-214: the snapshot of a document that decodes
StatusOf(doc) ==
    LET base == [k \in DOMAIN BaseFields |-> FloatOf[FindText(doc, BaseFields[k], "0")]]
        upsf == [k \in {x \in DOMAIN UpsFloatFields : Present(doc, UpsFloatFields[x])} |->
                    FloatOf[FindText(doc, UpsFloatFields[k], "0")]]
        upsi == [k \in {x \in DOMAIN UpsIntFields : Present(doc, UpsIntFields[x])} |->
                    IntOf[FindText(doc, UpsIntFields[k], "0")]]
    IN base @@ upsf @@ upsi @@ ("outlets" :> OutletsOf(doc, FindAll(doc, "outlet"), <<>>))

\* (mutant) the ValueError of float() and int() is not caught
StatusCatchesParseError == {"ParseError"}

\* line 216
StatusCatches == {"ParseError", "ValueError"}

\* (mutant) a decoded status overwrites the stored firmware version
StatusResumeStores(t, r, response) ==
    IF NotResponse(response) THEN Ends(t, Returned(r, EmptyDict))
    ELSE IF ~response.wellformed \/ StatusValueError(response.doc)
    THEN Ends(t, Returned(r, EmptyDict))
    ELSE /\ firmware_version' = "Unknown"
         /\ tasks' = [tasks EXCEPT ![t] = Returned(r, StatusOf(response.doc))]
         /\ UNCHANGED <<device_class, device_id, device_type, connected>>

\* lines 182-218
StatusResume(t, r, response) ==
    IF NotResponse(response) THEN Ends(t, Returned(r, EmptyDict))
    ELSE IF ~response.wellformed
    THEN Ends(t, IF "ParseError" \in StatusCatches THEN Returned(r, EmptyDict) ELSE Raised(r))
    ELSE IF StatusValueError(response.doc)
    THEN Ends(t, IF "ValueError" \in StatusCatches THEN Returned(r, EmptyDict) ELSE Raised(r))
    ELSE Ends(t, Returned(r, StatusOf(response.doc)))

-----------------------------------------------------------------------------
(* set_outlet, lines 220-256 *)

\* (mutant) the outlet-bank count is not consulted
MaxOutletsNoBanks(dtype) ==
    LET device_config == Get(DEVICE_CONFIG, dtype, EmptyDict)
    IN Get(device_config, "outlets", 8)

\* lines 234-235
MaxOutlets(dtype) ==
    LET device_config == Get(DEVICE_CONFIG, dtype, EmptyDict)
    IN IF "outlets" \in DOMAIN device_config /\ device_config["outlets"] # 0
       THEN device_config["outlets"]
       ELSE Get(device_config, "outlet_banks", 8)

\* line 237
ValidOutlet(outlet_id, max_outlets) == 1 <= outlet_id /\ outlet_id <= max_outlets

\* line 255
OutletCatches == {"ParseError"}

\* lines 248-256
OutletResume(t, r, response) ==
    IF NotResponse(response) THEN Ends(t, Returned(r, FALSE))
    ELSE IF ~response.wellformed
    THEN Ends(t, IF "ParseError" \in OutletCatches THEN Returned(r, FALSE) ELSE Raised(r))
    ELSE Ends(t, Returned(r, HasAck(response.doc, Xid(r.args[1]))))

-----------------------------------------------------------------------------
(* _send_command, lines 44-98, and the calls of the public operations *)

\* The caller of _send_command resumes with its response.
Resume(t, r0, response) ==
    LET r == [r0 EXCEPT !.response = <<response>>]
    IN CASE r.op = "connect" -> ConnectResume(t, r, response)
         [] r.op = "get_device_info" -> InfoResume(t, r, response)
         [] r.op = "get_status" -> StatusResume(t, r, response)
         [] r.op = "set_outlet" -> OutletResume(t, r, response)

\* lines 57-72: the command is framed and a socket opened, and the coroutine
\* suspends on sendto; a socket() that raises, and a settimeout or an encode
\* that raises once the socket is open, make the response None at once.
Begin(t, r, xml_command) ==
    LET framed == [r EXCEPT !.cmds = <<xml_command>>]
        opened == [framed EXCEPT !.sock = "open", !.opened = @ + 1]
    IN \/ Resume(t, framed, NoResponse)
       \/ Resume(t, opened, NoResponse)
       \/ Ends(t, [opened EXCEPT !.pc = "sendto"])

\* lines 100-108: connect() up to its first await, run by coroutine t
Connect(t) == Begin(t, Called("connect", <<>>, None), XmlCommand("cv2", cv2_id, SendFamily))

\* lines 139-151
GetDeviceInfo(t) ==
    IF NotInitialized(device_id)
    THEN Ends(t, Returned(Called("get_device_info", <<>>, None), EmptyDict))
    ELSE Begin(t, Called("get_device_info", <<>>, None),
               XmlCommand(device_class, device_id, SendInfo))

\* lines 167-180
GetStatus(t) ==
    IF NotInitialized(device_id)
    THEN Ends(t, Returned(Called("get_status", <<>>, None), EmptyDict))
    ELSE Begin(t, Called("get_status", <<>>, None),
               XmlCommand(device_class, device_id, SendStatus))

\* lines 220-246
SetOutlet(t, outlet_id, state) ==
    LET r == Called("set_outlet", <<outlet_id, state>>, device_type)
    IN IF NotInitialized(device_id) THEN Ends(t, Returned(r, FALSE))
       ELSE IF ~ValidOutlet(outlet_id, MaxOutlets(device_type))
       THEN Ends(t, Returned(r, FALSE))
       ELSE Begin(t, r, XmlCommand(device_class, device_id,
                                   OutletMessage(outlet_id, state)))

\* A coroutine that runs no operation calls one.
CallConnect(t) == tasks[t].pc = "idle" /\ Connect(t)

CallGetDeviceInfo(t) == tasks[t].pc = "idle" /\ GetDeviceInfo(t)

CallGetStatus(t) == tasks[t].pc = "idle" /\ GetStatus(t)

CallSetOutlet(t, ids) ==
    /\ tasks[t].pc = "idle"
    /\ \E outlet_id \in ids, state \in BOOLEAN : SetOutlet(t, outlet_id, state)

\* lines 69-75: the pending sendto ends; it has put the datagram on the wire
\* and the coroutine suspends on recvfrom, or it raised and the response is None.
SendtoDone(t) ==
    /\ tasks[t].pc = "sendto"
    /\ \E ok \in BOOLEAN :
         IF ok
         THEN Ends(t, [tasks[t] EXCEPT !.pc = "recvfrom", !.recvs = @ + 1,
                                       !.sent = Append(@, tasks[t].cmds[1])])
         ELSE Resume(t, tasks[t], NoResponse)

\* (mutant) a timeout sends the command again
RecvfromDoneRetries(t, outcomes) ==
    /\ tasks[t].pc = "recvfrom"
    /\ \E outcome \in outcomes :
         IF outcome.kind = "timeout"
         THEN Ends(t, [tasks[t] EXCEPT !.pc = "sendto"])
         ELSE Resume(t, tasks[t], ResponseOf(outcome))

\* (mutant) the socket has no timeout and nothing arrives: recvfrom never ends
RecvfromDoneBlocks(t, outcomes) ==
    /\ tasks[t].pc = "recvfrom"
    /\ \E outcome \in {} : Resume(t, tasks[t], ResponseOf(outcome))

\* lines 75-98: the pending recvfrom ends and the operation runs to its return.
RecvfromDone(t, outcomes) ==
    /\ tasks[t].pc = "recvfrom"
    /\ \E outcome \in outcomes : Resume(t, tasks[t], ResponseOf(outcome))

\* lines 70-75: the task awaiting the operation is cancelled while the
\* coroutine is suspended on an executor call.
Cancel(t) ==
    /\ tasks[t].pc \in {"sendto", "recvfrom"}
    /\ Ends(t, Cancelled(tasks[t]))

\* The caller has taken the result; the coroutine object is gone.
Finished(t) ==
    /\ tasks[t].pc \in {"done", "raised", "cancelled"}
    /\ Ends(t, IdleTask)

\* No coroutine of the integration awaits the operation of a slot.
NoOwner == [kind |-> "none", command |-> 0]

\* lines 38-42 of device.py; __init__.py 58: the setup has constructed the
\* session and called nothing; switch.py 72-73: no pending state, no task.
Init ==
    /\ device_class = None
    /\ device_id = None
    /\ device_type = None
    /\ firmware_version = None
    /\ connected = FALSE
    /\ tasks = [t \in Tasks |-> IdleTask]
    /\ entry = [pc |-> "start", calls |-> <<>>]
    /\ coordinator = [data |-> <<>>, last_update_success |-> TRUE,
                      registered |-> FALSE, refresh |-> FALSE]
    /\ switch = [pending_state |-> <<>>, pending_task |-> 0, sleepers |-> {},
                 issued |-> 0, setter |-> 0, cleared |-> <<>>]
    /\ owner = [t \in Tasks |-> NoOwner]

\* One step of coroutine t, with the outlet ids its caller may pass and the
\* ways the network may end its recvfrom.
Step(t, ids, outcomes) ==
    \/ CallConnect(t)
    \/ CallGetDeviceInfo(t)
    \/ CallGetStatus(t)
    \/ CallSetOutlet(t, ids)
    \/ SendtoDone(t)
    \/ RecvfromDone(t, outcomes)
    \/ Cancel(t)
    \/ Finished(t)

\* One operation at a time, as the integration's setup and poller call the
\* session: every outlet id, every response of the model.
Next == Step(1, OutletIds, RecvOutcomes) /\ UNCHANGED integration

Spec == Init /\ [][Next]_vars

\* line 67: the socket carries the timeout, so a pending sendto and a pending
\* recvfrom end: with the datagram sent, with a response, or with an exception.
Live ==
    /\ Spec
    /\ WF_vars(SendtoDone(1) /\ UNCHANGED integration)
    /\ WF_vars(RecvfromDone(1, RecvOutcomes) /\ UNCHANGED integration)

\* Operations of several coroutines interleaved at their awaits, over the
\* smaller inputs ConcurrentIds and ConcurrentOutcomes.
ConcurrentNext ==
    /\ \E t \in Tasks : Step(t, ConcurrentIds, ConcurrentOutcomes)
    /\ UNCHANGED integration

Concurrent == Init /\ [][ConcurrentNext]_vars

-----------------------------------------------------------------------------
(* The integration: entry setup (__init__.py 54-79), coordinator           *)
(* (coordinator.py 29-40) and the switch of outlet 1 (switch.py 105-132).  *)
(*                                                                         *)
(* entry.pc is the position of async_setup_entry and entry.calls the       *)
(* operations it has called, in order.  coordinator.data is <<>> for None  *)
(* or <<snapshot>>; coordinator.refresh tells that a refresh was requested *)
(* and has not started.  switch.pending_state is <<>> for None or          *)
(* <<state>>.  A clear-pending task is named by the number of the command  *)
(* that created it: switch.pending_task is that number (0 for None) and    *)
(* switch.sleepers the tasks created, not cancelled and still in their     *)
(* sleep; switch.setter is the command that set pending_state last, and    *)
(* switch.cleared <<task, setter>> for the last task that cleared a set    *)
(* pending state.  owner[t] is the coroutine awaiting the operation of     *)
(* slot t.  An awaited operation and its awaiter are one coroutine chain:  *)
(* the awaiter resumes in the step in which the operation returns.         *)

\* The responses of the bridge in the integration: none in time, one that is
\* not XML, a discovery, a status, a status with a non-numeric field, an
\* acknowledgment of outlet 1.
IntegrationOutcomes ==
    { [kind |-> "timeout"],
      [kind |-> "data", text |-> Text(FALSE, FALSE, <<>>)] } \cup
    { [kind |-> "data", text |-> Text(FALSE, TRUE, d)] :
        d \in { KidsDoc("km4315", "42"),
                <<Root, El("voltage", 1, NoAttrs, "120.5"), El("outlet", 1, [id |-> "1"], "1")>>,
                <<Root, El("voltage", 1, NoAttrs, "abc")>>,
                <<Root, El("ack", 1, [xid |-> Xid(1)], None)>> } }

\* switch.py 31: the first outlet, the one of the switch modelled
SwitchOutlet == 1

Who(kind, command) == [kind |-> kind, command |-> command]

HasFreeSlot == \E t \in Tasks : tasks[t].pc = "idle"

\* The slot the next operation of the integration runs in.
FreeSlot == CHOOSE t \in Tasks : tasks[t].pc = "idle" /\ \A u \in 1..(t - 1) : tasks[u].pc # "idle"

\* (mutant) setup goes on whatever connect() returned
AfterConnectIgnores(result) == "connected"

\* __init__.py 60-62: `if not await device.connect(): return False`
AfterConnect(result) == IF ~result THEN "failed" ELSE "connected"

\* (mutant) the status is returned unchecked
AsyncUpdateDataUnchecked(status) == [failed |-> FALSE, data |-> status]

\* coordinator.py 29-40: _async_update_data with the result of get_status():
\* UpdateFailed for a falsy status, the status otherwise
AsyncUpdateData(status) == [failed |-> DOMAIN status = {}, data |-> status]

\* (mutant) the command returns without creating its clear-pending task
CreateTaskForgotten(s, c) == s

\* switch.py 114 and 125: `self._pending_task = asyncio.create_task(
\* self._clear_pending_state())` by command c
CreateTask(s, c) == [s EXCEPT !.pending_task = c, !.sleepers = @ \cup {c}]

\* The awaiter `who` resumes with the result of its operation; e, c and s
\* are entry, coordinator and switch as it finds them.
\* __init__.py 60-79 (the first refresh raises ConfigEntryNotReady when the
\* update failed, and otherwise publishes the data before the coordinator is
\* registered); the coordinator's refresh keeps the previous data when the
\* update failed; switch.py 114 and 125.
Resumed(who, result, e, c, s) ==
    CASE who.kind = "connect" -> <<[e EXCEPT !.pc = AfterConnect(result)], c, s>>
      [] who.kind = "info" -> <<[e EXCEPT !.pc = "informed"], c, s>>
      [] who.kind = "first_refresh" ->
            IF AsyncUpdateData(result).failed
            THEN <<[e EXCEPT !.pc = "not_ready"], [c EXCEPT !.last_update_success = FALSE], s>>
            ELSE <<[e EXCEPT !.pc = "loaded"],
                   [c EXCEPT !.data = <<AsyncUpdateData(result).data>>,
                             !.last_update_success = TRUE, !.registered = TRUE], s>>
      [] who.kind = "poll" ->
            IF AsyncUpdateData(result).failed
            THEN <<e, [c EXCEPT !.last_update_success = FALSE], s>>
            ELSE <<e, [c EXCEPT !.data = <<AsyncUpdateData(result).data>>,
                                !.last_update_success = TRUE], s>>
      [] who.kind = "command" ->
            <<e, c, CreateTask(s, who.command)>>

\* The operation of slot t has taken its step: when it returned, its awaiter
\* resumes at once; otherwise the awaiter stays suspended on it.
Settle(t, who, e, c, s) ==
    IF tasks'[t].pc = "done"
    THEN /\ entry' = Resumed(who, tasks'[t].result[1], e, c, s)[1]
         /\ coordinator' = Resumed(who, tasks'[t].result[1], e, c, s)[2]
         /\ switch' = Resumed(who, tasks'[t].result[1], e, c, s)[3]
         /\ owner' = [owner EXCEPT ![t] = NoOwner]
    ELSE /\ entry' = e /\ coordinator' = c /\ switch' = s
         /\ owner' = [owner EXCEPT ![t] = who]

\* __init__.py 58-60
SetupConnect ==
    /\ entry.pc = "start" /\ HasFreeSlot
    /\ Connect(FreeSlot)
    /\ Settle(FreeSlot, Who("connect", 0),
              [entry EXCEPT !.pc = "connect", !.calls = Append(@, "connect")],
              coordinator, switch)

\* __init__.py 64
SetupInfo ==
    /\ entry.pc = "connected" /\ HasFreeSlot
    /\ GetDeviceInfo(FreeSlot)
    /\ Settle(FreeSlot, Who("info", 0),
              [entry EXCEPT !.pc = "info", !.calls = Append(@, "get_device_info")],
              coordinator, switch)

\* __init__.py 66-75
FirstRefresh ==
    /\ entry.pc = "informed" /\ HasFreeSlot
    /\ GetStatus(FreeSlot)
    /\ Settle(FreeSlot, Who("first_refresh", 0),
              [entry EXCEPT !.pc = "refresh", !.calls = Append(@, "get_status")],
              coordinator, switch)

\* coordinator.py 26 and 32: a refresh of the registered coordinator, at its
\* interval or on request, one at a time
Poll ==
    /\ coordinator.registered /\ HasFreeSlot
    /\ \A t \in Tasks : owner[t].kind # "poll"
    /\ GetStatus(FreeSlot)
    /\ Settle(FreeSlot, Who("poll", 0), entry, [coordinator EXCEPT !.refresh = FALSE], switch)

\* switch.py 105-113 and 116-124: async_turn_on / async_turn_off up to the
\* awaited set_outlet
Turn(state) ==
    /\ entry.pc = "loaded" /\ switch.issued < MaxCommands /\ HasFreeSlot
    /\ SetOutlet(FreeSlot, SwitchOutlet, state)
    /\ Settle(FreeSlot, Who("command", switch.issued + 1), entry, coordinator,
              [switch EXCEPT !.sleepers = @ \ {switch.pending_task},
                             !.pending_state = <<state>>,
                             !.issued = @ + 1, !.setter = switch.issued + 1])

\* switch.py 127-132: the sleep of clear-pending task c is over
ClearPending(c) ==
    /\ c \in switch.sleepers
    /\ switch' = [switch EXCEPT !.pending_state = <<>>, !.pending_task = 0,
                                !.sleepers = @ \ {c},
                                !.cleared = IF switch.pending_state = <<>> THEN @
                                            ELSE <<c, switch.setter>>]
    /\ coordinator' = [coordinator EXCEPT !.refresh = TRUE]
    /\ UNCHANGED <<tasks, Session, entry, owner>>

\* The sendto of an operation of the integration ends.
Sent(t) ==
    /\ owner[t].kind # "none"
    /\ SendtoDone(t)
    /\ Settle(t, owner[t], entry, coordinator, switch)

\* The recvfrom of an operation of the integration ends.
Received(t) ==
    /\ owner[t].kind # "none"
    /\ RecvfromDone(t, IntegrationOutcomes)
    /\ Settle(t, owner[t], entry, coordinator, switch)

\* The coroutine of a returned operation is gone.
Released(t) == Finished(t) /\ UNCHANGED integration

IntegrationNext ==
    \/ SetupConnect
    \/ SetupInfo
    \/ FirstRefresh
    \/ Poll
    \/ \E state \in BOOLEAN : Turn(state)
    \/ \E c \in 1..MaxCommands : ClearPending(c)
    \/ \E t \in Tasks : Sent(t) \/ Received(t) \/ Released(t)

Integration == Init /\ [][IntegrationNext]_vars

\* The integration with its scheduling: the executor ends every sendto,
\* a recvfrom returns or times out (device.py 67), and the sleep of a
\* clear-pending task that is not cancelled ends (switch.py 129).
LiveIntegration ==
    /\ Integration
    /\ \A t \in Tasks : WF_vars(Sent(t)) /\ WF_vars(Received(t))
    /\ \A c \in 1..MaxCommands : WF_vars(ClearPending(c))

-----------------------------------------------------------------------------
(* Properties *)

IsEmptyDict(d) == DOMAIN d = {}

\* Task t makes a call in this step.
Calls(t) == tasks[t].pc = "idle" /\ tasks'[t].pc # "idle"

\* Task t returns (or raises) in this step.
Returns(t) == tasks[t].pc \in {"idle", "sendto", "recvfrom"} /\ tasks'[t].pc \in {"done", "raised"}

\* The failure value of an operation came back: {} or False.
Failed(r) ==
    /\ r.pc = "done"
    /\ IF r.op \in {"get_device_info", "get_status"}
       THEN IsEmptyDict(r.result[1]) ELSE r.result[1] = FALSE

\* No network exchange: no command reached the transport, no socket, no datagram.
NoExchange(r) == r.cmds = <<>> /\ r.opened = 0 /\ r.sock = "None" /\ r.sent = <<>>

\* C1: before any connect() has succeeded, a call of get_device_info(),
\* get_status() or set_outlet() returns its failure value in the step of the
\* call itself, having opened no socket and sent no datagram.
C1_FailFastBeforeConnect ==
    [][\A t \in Tasks :
         (Calls(t) /\ ~connected /\
          tasks'[t].op \in {"get_device_info", "get_status", "set_outlet"})
         => (Failed(tasks'[t]) /\ NoExchange(tasks'[t]))]_vars

C1_Witness ==
    /\ ~connected
    /\ tasks[1].op = "set_outlet" /\ tasks[1].args[1] = 1
    /\ Failed(tasks[1]) /\ NoExchange(tasks[1])

\* The capacity of a family profile: its outlet count if it has one,
\* otherwise its outlet-bank count.
Capacity(family) ==
    IF "outlets" \in DOMAIN DEVICE_CONFIG[family]
    THEN DEVICE_CONFIG[family]["outlets"]
    ELSE DEVICE_CONFIG[family]["outlet_banks"]

\* The framed command x is an outlet command for outlet k.
IsOutletCommand(x, k) ==
    /\ Len(x) = 3
    /\ x[1].tag = "device" /\ x[2].tag = "command" /\ x[3].tag = "outlet"
    /\ x[3].parent = 2
    /\ x[3].attrs["id"] = ToString(k)

\* C2 as stated: a set_outlet(k, _) called on a discovered session of family
\* capacity N returns False with no exchange when k < 1 or k > N, and has
\* otherwise, once its send is over, sent exactly one outlet command.
C2_AlwaysSendsOne ==
    \A t \in Tasks :
        LET r == tasks[t] IN
        (r.op = "set_outlet" /\ r.dtype # None) =>
            LET N == Capacity(r.dtype)
                k == r.args[1]
            IN IF k < 1 \/ k > N
               THEN Failed(r) /\ NoExchange(r)
               ELSE r.pc \in {"recvfrom", "done"} =>
                        (Len(r.sent) = 1 /\ IsOutletCommand(r.sent[1], k))

\* C2 (amended): a set_outlet(k, _) called on a discovered session of family
\* capacity N returns False with no exchange when k < 1 or k > N, and
\* otherwise hands exactly one outlet command for k to the transport, which
\* sends it as at most one datagram: exactly one once the send has gone
\* through, none when opening the socket or the send failed, and then the
\* call has returned False on an absent response.  This holds for every
\* family of the lookup table.
C2_OutletRange ==
    \A t \in Tasks :
        LET r == tasks[t] IN
        (r.op = "set_outlet" /\ r.dtype # None) =>
            LET N == Capacity(r.dtype)
                k == r.args[1]
            IN /\ r.dtype \in {DEVICE_CLASS_MAP[c] : c \in DOMAIN DEVICE_CLASS_MAP}
               /\ IF k < 1 \/ k > N
                  THEN Failed(r) /\ NoExchange(r)
                  ELSE /\ Len(r.cmds) = 1
                       /\ IsOutletCommand(r.cmds[1], k)
                       /\ r.sent \in {<<>>, r.cmds}
                       /\ r.pc = "recvfrom" => r.sent = r.cmds
                       /\ (r.pc = "done" /\ r.sent = <<>>)
                            => (Failed(r) /\ r.response = <<NoResponse>>)

C2_Witness ==
    /\ tasks[1].op = "set_outlet" /\ tasks[1].dtype = DEVICE_TYPE_F1500
    /\ tasks[1].args[1] = 4
    /\ tasks[1].pc = "recvfrom" /\ tasks[1].sent = tasks[1].cmds /\ Len(tasks[1].cmds) = 1

\* A set_outlet that reached the transport and has returned.
OutletExchanged(r) == r.op = "set_outlet" /\ r.pc = "done" /\ r.cmds # <<>>

\* The response arrived and parsed as XML.
Parsed(r) ==
    /\ r.response # <<>>
    /\ r.response[1].kind = "str" /\ ~r.response[1].empty /\ r.response[1].wellformed

\* The xid the call put into its command.
SentXid(r) == r.cmds[1][2].attrs["xid"]

\* Element i of the response is an ack carrying the xid of the call.
AckAt(r, i) ==
    LET doc == r.response[1].doc
    IN doc[i].tag = "ack" /\ "xid" \in DOMAIN doc[i].attrs /\ doc[i].attrs["xid"] = SentXid(r)

\* C3 as stated: the result is True iff the response arrived, parsed and has
\* an ack with the call's xid anywhere in the document, the root included.
C3_AckAnywhere ==
    \A t \in Tasks :
        OutletExchanged(tasks[t]) =>
            (tasks[t].result[1] = TRUE <=>
                (Parsed(tasks[t]) /\
                 \E i \in 1..Len(tasks[t].response[1].doc) : AckAt(tasks[t], i)))

\* C3 (amended): the result of an in-range set_outlet is True iff the response
\* arrived, parsed and has an ack with the call's xid below its root element;
\* an ack of another xid, a transport failure and a parse failure yield False.
C3_AckBelowRoot ==
    \A t \in Tasks :
        OutletExchanged(tasks[t]) =>
            (tasks[t].result[1] = TRUE <=>
                (Parsed(tasks[t]) /\
                 \E i \in 2..Len(tasks[t].response[1].doc) : AckAt(tasks[t], i)))

C3_Witness ==
    /\ OutletExchanged(tasks[1]) /\ tasks[1].args[1] = 3 /\ Parsed(tasks[1])
    /\ tasks[1].result[1] = TRUE
    /\ \E i \in 2..Len(tasks[1].response[1].doc) : AckAt(tasks[1], i)

\* C4 as stated: any two set_outlet calls of a session that reached the
\* transport carry distinct xids.
C4_DistinctXids ==
    \A t, u \in Tasks :
        (t # u /\ tasks[t].op = "set_outlet" /\ tasks[u].op = "set_outlet" /\
         tasks[t].cmds # <<>> /\ tasks[u].cmds # <<>>)
        => SentXid(tasks[t]) # SentXid(tasks[u])


\* C5: in every state, also between the awaits of interleaved operations,
\* device_class, device_id and device_type are all unset or all set; when set,
\* device_type is the family of device_class in the lookup table and device_id
\* is not empty, so the guard of the other operations passes exactly then.
C5_IdentityAllOrNone ==
    /\ \/ device_class = None /\ device_id = None /\ device_type = None
       \/ /\ device_class \in DOMAIN DEVICE_CLASS_MAP
          /\ device_type = DEVICE_CLASS_MAP[device_class]
          /\ device_id \notin {None, ""}
    /\ (device_id \notin {None, ""}) <=>
          (device_class # None /\ device_id # None /\ device_type # None)

C5_Witness ==
    /\ device_id = "7" /\ device_class = "kf1500"
    /\ \E t, u \in Tasks :
         /\ t # u
         /\ tasks[t].op = "connect" /\ tasks[t].pc = "recvfrom"
         /\ tasks[u].op = "set_outlet" /\ tasks[u].pc = "sendto"
         /\ tasks[u].cmds[1][1].attrs["class"] = "km4315"

\* Task t returns True from connect() in this step.
ConnectSucceeds(t) ==
    /\ Returns(t) /\ tasks'[t].op = "connect"
    /\ tasks'[t].pc = "done" /\ tasks'[t].result[1] = TRUE

\* C6 as stated: once a connect() has succeeded the identity never changes.
C6_IdentityFrozen == [][connected => identity' = identity]_vars

\* C6 (amended): once a connect() has succeeded, the identity is changed by no
\* step other than the return of a later successful connect(), which leaves
\* all three fields set.
C6_IdentityOnlyByConnect ==
    [][(connected /\ identity' # identity)
       => /\ \E t \in Tasks : ConnectSucceeds(t)
          /\ device_class' # None /\ device_id' # None /\ device_type' # None]_vars

\* A connect() on a session that already holds an identity and a firmware
\* version has succeeded and recorded another sub-device.
C6_Witness ==
    /\ connected /\ firmware_version # None
    /\ tasks[1].op = "connect" /\ tasks[1].pc = "done" /\ tasks[1].result[1] = TRUE
    /\ device_class = "kf1500" /\ device_id = "7"

\* Task t returns a non-empty result from get_device_info() in this step.
InfoSucceeds(t) ==
    /\ Returns(t) /\ tasks'[t].op = "get_device_info"
    /\ tasks'[t].pc = "done" /\ ~IsEmptyDict(tasks'[t].result[1])

\* C7 as stated: once stored, firmware_version never changes.
C7_FirmwareFrozen == [][firmware_version # None => firmware_version' = firmware_version]_vars

\* C7 (amended): firmware_version is written by successful get_device_info()
\* calls only: each of them stores the firmware text it returns, overwriting
\* an earlier one, and no other step changes the field.
C7_FirmwareOnlyByInfo ==
    [][/\ firmware_version' # firmware_version => \E t \in Tasks : InfoSucceeds(t)
       /\ \A t \in Tasks :
            InfoSucceeds(t) => firmware_version' = tasks'[t].result[1]["firmware"]]_vars

C7_Witness ==
    /\ firmware_version = "2.0"
    /\ tasks[1].op = "get_device_info" /\ tasks[1].pc = "done"
    /\ ~IsEmptyDict(tasks[1].result[1]) /\ tasks[1].result[1]["firmware"] = "2.0"

\* C8: firmware_version is never set while the identity is unset, and no step
\* unsets a field of the identity or firmware_version once it is set.
C8_ForwardOnly ==
    /\ [](firmware_version # None =>
            (device_class # None /\ device_id # None /\ device_type # None))
    /\ [][/\ device_class # None => device_class' # None
          /\ device_id # None => device_id' # None
          /\ device_type # None => device_type' # None
          /\ firmware_version # None => firmware_version' # None]_vars

\* On a session with identity and firmware stored, a rediscovery has failed.
C8_Witness ==
    /\ firmware_version # None /\ device_id # None
    /\ tasks[1].op = "connect" /\ tasks[1].pc = "done" /\ tasks[1].result[1] = FALSE
    /\ tasks[1].response = <<NoResponse>> /\ tasks[1].sent # <<>>

\* A connect() that has returned with a response that parsed.
ConnectParsed(r) == r.op = "connect" /\ r.pc = "done" /\ Parsed(r)

\* Element i of doc is a sub-device whose class tag is a key of the lookup table.
Recognized(doc, i) ==
    /\ i \in 2..Len(doc) /\ doc[i].tag = "kids"
    /\ "class" \in DOMAIN doc[i].attrs /\ doc[i].attrs["class"] \in DOMAIN DEVICE_CLASS_MAP

\* Element j is the first k child of element i.
FirstK(doc, i, j) ==
    /\ j \in 2..Len(doc) /\ doc[j].parent = i /\ doc[j].tag = "k"
    /\ \A h \in 2..(j - 1) : ~(doc[h].parent = i /\ doc[h].tag = "k")

\* The session holds element i of doc with identifier element j.
Holds(doc, i, j) ==
    /\ device_class = doc[i].attrs["class"]
    /\ device_id = doc[j].text
    /\ device_type = DEVICE_CLASS_MAP[doc[i].attrs["class"]]

\* C9 as stated: on a parseable response with a recognized sub-device,
\* connect() returns True having recorded the first recognized one.
C9_FirstRecognized ==
    \A t \in Tasks :
        LET r == tasks[t] IN
        ConnectParsed(r) =>
            \A i \in 2..Len(r.response[1].doc) :
                (Recognized(r.response[1].doc, i) /\
                 \A h \in 2..(i - 1) : ~Recognized(r.response[1].doc, h))
                => /\ r.result[1] = TRUE
                   /\ \E j \in 2..Len(r.response[1].doc) :
                        FirstK(r.response[1].doc, i, j) /\ Holds(r.response[1].doc, i, j)

\* Element i is a recognized sub-device whose first k child carries a
\* non-empty identifier text.
Identified(doc, i) ==
    /\ Recognized(doc, i)
    /\ \E j \in 2..Len(doc) : FirstK(doc, i, j) /\ doc[j].text \notin {None, ""}

\* C9 (amended): on a parseable response, connect() adopts the first
\* sub-device in document order whose class tag is a key of the lookup table
\* and whose first k child carries a non-empty identifier text: it records
\* that tag, that text and the mapped family and returns True, and no later
\* sub-device influences the identity; with no such sub-device it returns False.
C9_FirstIdentified ==
    \A t \in Tasks :
        LET r == tasks[t] IN
        ConnectParsed(r) =>
            LET doc == r.response[1].doc IN
            /\ \A i \in 2..Len(doc) :
                 (Identified(doc, i) /\ \A h \in 2..(i - 1) : ~Identified(doc, h))
                 => /\ r.result[1] = TRUE
                    /\ \E j \in 2..Len(doc) : FirstK(doc, i, j) /\ Holds(doc, i, j)
            /\ (\A i \in 2..Len(doc) : ~Identified(doc, i)) => r.result[1] = FALSE

C9_Witness ==
    /\ ConnectParsed(tasks[1]) /\ tasks[1].result[1] = TRUE
    /\ Len(tasks[1].response[1].doc) = 5
    /\ Identified(tasks[1].response[1].doc, 2) /\ Identified(tasks[1].response[1].doc, 4)
    /\ device_class = "km4315" /\ device_id = "42"

\* C10: connect() never raises; when no response arrived, when the response
\* is not parseable XML and when it holds no recognized sub-device, connect()
\* returns False and leaves the identity as it was; a False result never
\* comes with a changed identity, and a True result comes only with an
\* identity recorded from the response of that call.
C10_ConnectFailure ==
    /\ [](\A t \in Tasks : tasks[t].op = "connect" => tasks[t].pc # "raised")
    /\ [][\A t \in Tasks :
            (Returns(t) /\ tasks'[t].op = "connect") =>
                LET r == tasks'[t] IN
                /\ (~Parsed(r) \/ \A i \in 2..Len(r.response[1].doc) :
                                     ~Recognized(r.response[1].doc, i))
                   => (r.result[1] = FALSE /\ identity' = identity)
                /\ r.result[1] = FALSE => identity' = identity
                /\ r.result[1] = TRUE =>
                     /\ Parsed(r)
                     /\ \E i, j \in 2..Len(r.response[1].doc) :
                          /\ Recognized(r.response[1].doc, i)
                          /\ FirstK(r.response[1].doc, i, j)
                          /\ device_class' = r.response[1].doc[i].attrs["class"]
                          /\ device_id' = r.response[1].doc[j].text
                          /\ device_type' = DEVICE_CLASS_MAP[device_class']]_vars

\* A rediscovery on a discovered session got a document without any
\* recognized sub-device and returned False.
C10_Witness ==
    /\ device_class = "km4320" /\ device_id = "42" /\ device_type = DEVICE_TYPE_M4320
    /\ ConnectParsed(tasks[1]) /\ tasks[1].result[1] = FALSE
    /\ \A i \in 2..Len(tasks[1].response[1].doc) : ~Recognized(tasks[1].response[1].doc, i)

\* A get_status() that has returned.
StatusDone(r) == r.op = "get_status" /\ r.pc = "done"

\* The texts of the responses that are decimal numerals, and those among
\* them that are integer numerals.
Numerals == {"0", "1", "2", "3", "-1", "75", "2.1", "120.5"}

Integrals == {"0", "1", "2", "3", "-1", "75"}

\* Element i is the first element below the root that carries `tag`.
FirstOf(doc, tag, i) ==
    /\ i \in 2..Len(doc) /\ doc[i].tag = tag
    /\ \A h \in 2..(i - 1) : doc[h].tag # tag

\* A field get_status reads holds something that is not a number of the
\* field's kind: a measurement that is not a decimal numeral (an element
\* without text included), a power-condition code or an outlet id that is
\* not an integer numeral.
ReadsNonNumeric(doc) ==
    \/ \E i \in 2..Len(doc) :
          /\ \E tag \in {"voltage", "amperage", "wattage", "pwrva", "pwrfact", "temperature",
                          "voltageout", "battlevel", "loadlevel"} : FirstOf(doc, tag, i)
          /\ doc[i].text \notin Numerals
    \/ \E i \in 2..Len(doc) : FirstOf(doc, "pwrcond", i) /\ doc[i].text \notin Integrals
    \/ \E i \in 2..Len(doc) :
          /\ doc[i].tag = "outlet" /\ "id" \in DOMAIN doc[i].attrs
          /\ doc[i].attrs["id"] \notin Integrals

\* C11: get_status() returns the empty result exactly when the call failed:
\* it was turned away undiscovered, no response came back (timeout or error),
\* the response is not well-formed XML, or a field it reads is not numeric;
\* every other call returns a snapshot that holds all six base fields and the
\* outlets map, so a snapshot is never empty and never partial.
C11_EmptyIffFailed ==
    \A t \in Tasks :
        LET r == tasks[t] IN
        StatusDone(r) =>
            /\ IsEmptyDict(r.result[1]) <=>
                  \/ r.cmds = <<>>
                  \/ ~Parsed(r)
                  \/ ReadsNonNumeric(r.response[1].doc)
            /\ ~IsEmptyDict(r.result[1]) =>
                  {"voltage", "current", "power", "apparent_power", "power_factor",
                   "temperature", "outlets"} \subseteq DOMAIN r.result[1]

\* A response whose voltage element reads 0 and which has no amperage
\* element was decoded into a full snapshot with both readings 0.
C11_Witness ==
    /\ StatusDone(tasks[1]) /\ Parsed(tasks[1])
    /\ \E i \in 2..Len(tasks[1].response[1].doc) :
          FirstOf(tasks[1].response[1].doc, "voltage", i) /\ tasks[1].response[1].doc[i].text = "0"
    /\ ~Present(tasks[1].response[1].doc, "amperage")
    /\ ~IsEmptyDict(tasks[1].result[1])
    /\ tasks[1].result[1]["voltage"] = 0 /\ tasks[1].result[1]["current"] = 0

\* A get_status() that has returned a snapshot.
StatusDecoded(r) == StatusDone(r) /\ ~IsEmptyDict(r.result[1])

\* The optional fields of a snapshot and their source elements.
UpsSources ==
    ("voltage_out" :> "voltageout") @@ ("battery_level" :> "battlevel") @@
    ("load_level" :> "loadlevel") @@ ("power_condition" :> "pwrcond")

\* The number a source text stands for: an integer code for the power
\* condition, a measurement (in tenths) for the others.
SourceValue(key, text) == IF key = "power_condition" THEN IntOf[text] ELSE FloatOf[text]

\* C12 as stated: in a returned snapshot each optional UPS field is present
\* iff an element of its source tag exists anywhere in the response, the root
\* element included, and then holds that element's value.
C12_UpsIffInResponse ==
    \A t \in Tasks :
        LET r == tasks[t] IN
        StatusDecoded(r) =>
            LET doc == r.response[1].doc IN
            \A key \in DOMAIN UpsSources :
                /\ key \in DOMAIN r.result[1] <=>
                      \E i \in 1..Len(doc) : doc[i].tag = UpsSources[key]
                /\ key \in DOMAIN r.result[1] =>
                      \E i \in 1..Len(doc) :
                          /\ doc[i].tag = UpsSources[key]
                          /\ r.result[1][key] = SourceValue(key, doc[i].text)

\* C12 (amended): in a returned snapshot each optional UPS field is present
\* iff an element of its source tag exists below the root element of the
\* response, and then holds the value of the first such element; a field
\* whose element is absent is left out, never defaulted.
C12_UpsIffBelowRoot ==
    \A t \in Tasks :
        LET r == tasks[t] IN
        StatusDecoded(r) =>
            LET doc == r.response[1].doc IN
            \A key \in DOMAIN UpsSources :
                /\ key \in DOMAIN r.result[1] <=>
                      \E i \in 2..Len(doc) : doc[i].tag = UpsSources[key]
                /\ \A i \in 2..Len(doc) :
                      FirstOf(doc, UpsSources[key], i)
                      => r.result[1][key] = SourceValue(key, doc[i].text)

\* A snapshot with all four optional fields, and the values of their elements.
C12_Witness ==
    /\ StatusDecoded(tasks[1])
    /\ DOMAIN UpsSources \subseteq DOMAIN tasks[1].result[1]
    /\ tasks[1].result[1]["voltage_out"] = 1205 /\ tasks[1].result[1]["battery_level"] = 10
    /\ tasks[1].result[1]["load_level"] = 750 /\ tasks[1].result[1]["power_condition"] = 0

\* Element i of doc is an outlet element whose id attribute is the positive
\* integer k.
OutletWithId(doc, i, k) ==
    /\ doc[i].tag = "outlet" /\ "id" \in DOMAIN doc[i].attrs
    /\ IntOf[doc[i].attrs["id"]] = k /\ k > 0

\* C13 as stated: the keys of the outlets map of a returned snapshot are the
\* strictly positive ids over all outlet elements of the response, and each
\* key maps to True iff the text of the outlet element of that id is "1".
C13_OutletsByElement ==
    \A t \in Tasks :
        LET r == tasks[t] IN
        StatusDecoded(r) =>
            LET doc == r.response[1].doc
                outlets == r.result[1]["outlets"]
            IN /\ DOMAIN outlets =
                    {k \in 1..MaxOutletId : \E i \in 1..Len(doc) : OutletWithId(doc, i, k)}
               /\ \A k \in DOMAIN outlets : \A i \in 1..Len(doc) :
                    OutletWithId(doc, i, k) => (outlets[k] <=> doc[i].text = "1")

\* C13 (amended): the keys of the outlets map of a returned snapshot are the
\* strictly positive ids over the outlet elements below the root of the
\* response (id 0, a negative id and a missing id contribute nothing), and
\* each key maps to True iff the text of the last outlet element of that id,
\* in document order, is exactly "1".
C13_OutletsByLastElement ==
    \A t \in Tasks :
        LET r == tasks[t] IN
        StatusDecoded(r) =>
            LET doc == r.response[1].doc
                outlets == r.result[1]["outlets"]
            IN /\ DOMAIN outlets =
                    {k \in 1..MaxOutletId : \E i \in 2..Len(doc) : OutletWithId(doc, i, k)}
               /\ \A k \in DOMAIN outlets : \A i \in 2..Len(doc) :
                    (OutletWithId(doc, i, k) /\
                     \A j \in (i + 1)..Len(doc) : ~OutletWithId(doc, j, k))
                    => (outlets[k] <=> doc[i].text = "1")

\* A response with outlet ids 0, -1, 3 (twice) and an outlet without id was
\* decoded into a map with the one key 3.
C13_Witness ==
    /\ StatusDecoded(tasks[1])
    /\ DOMAIN tasks[1].result[1]["outlets"] = {3}
    /\ tasks[1].result[1]["outlets"][3] = FALSE
    /\ \E i, j, h \in 2..Len(tasks[1].response[1].doc) :
          LET doc == tasks[1].response[1].doc IN
          /\ doc[i].tag = "outlet" /\ "id" \notin DOMAIN doc[i].attrs
          /\ doc[j].tag = "outlet" /\ doc[j].attrs = [id |-> "0"]
          /\ doc[h].tag = "outlet" /\ doc[h].attrs = [id |-> "-1"]

\* The operations in flight: suspended in the transport.
InFlight == {t \in Tasks : tasks[t].pc \in {"sendto", "recvfrom"}}

\* C14: the socket an exchange opened is closed on every way out of the
\* transport: a socket is open only while its operation is suspended in the
\* exchange, every operation that has returned, raised or been cancelled has
\* closed the socket it opened, and the open sockets never outnumber the
\* operations in flight.
C14_SocketsReleased ==
    /\ \A t \in Tasks : tasks[t].sock = "open" => t \in InFlight
    /\ \A t \in Tasks :
          tasks[t].pc \in {"done", "raised", "cancelled"} =>
              tasks[t].sock = IF tasks[t].opened = 1 THEN "closed" ELSE "None"
    /\ Cardinality({t \in Tasks : tasks[t].sock = "open"}) <= Cardinality(InFlight)

\* A get_status() was cancelled while it waited for the response and its
\* socket is closed, while another operation is in flight with its own.
C14_Witness ==
    /\ tasks[1].op = "get_status" /\ tasks[1].pc = "cancelled"
    /\ tasks[1].sent # <<>> /\ tasks[1].opened = 1 /\ tasks[1].sock = "closed"
    /\ tasks[2].op = "set_outlet" /\ tasks[2].pc = "recvfrom" /\ tasks[2].sock = "open"

\* The exchange of an operation that has returned failed in the transport
\* (timeout, socket error, bytes that are not UTF-8: no response) or in the
\* decoding (no well-formed XML, a non-numeric status field).
ExchangeFailed(r) ==
    /\ r.pc = "done" /\ r.cmds # <<>>
    /\ \/ r.response = <<NoResponse>>
       \/ ~Parsed(r)
       \/ r.op = "get_status" /\ ReadsNonNumeric(r.response[1].doc)

\* C15: no operation is ever left by an exception of the transport or of the
\* decoding: a timeout, a socket error and a response that cannot be decoded
\* make connect() and set_outlet() return False and get_device_info() and
\* get_status() return {}.
C15_FailuresResolve ==
    \A t \in Tasks :
        /\ tasks[t].pc # "raised"
        /\ ExchangeFailed(tasks[t]) => Failed(tasks[t])

\* A status response with a non-numeric field made get_status() return {}.
C15_Witness ==
    /\ StatusDone(tasks[1]) /\ Parsed(tasks[1])
    /\ ReadsNonNumeric(tasks[1].response[1].doc)
    /\ ExchangeFailed(tasks[1]) /\ Failed(tasks[1])

\* The texts of the model that hold a character of XML markup (", < or &):
\* put between the quotes of an attribute as they are, they end the value
\* early or break the document.
HasMarkup(value) == value \in {"4&2"}

\* The command x is the one element <device class=dclass id=did> around the
\* elements of `message` and nothing else.
DeviceAround(x, dclass, did, message) ==
    /\ Len(x) = Len(message) + 1
    /\ x[1].tag = "device" /\ x[1].parent = 0 /\ x[1].text = None
    /\ x[1].attrs = [class |-> dclass, id |-> did]
    /\ \A i \in 1..Len(message) :
          /\ x[i + 1].parent = message[i].parent + 1
          /\ x[i + 1].tag = message[i].tag /\ x[i + 1].text = message[i].text
          /\ DOMAIN x[i + 1].attrs = DOMAIN message[i].attrs
          /\ \A a \in DOMAIN message[i].attrs : x[i + 1].attrs[a] = message[i].attrs[a]

\* The command body of the operation of r.
BodyOf(r) ==
    CASE r.op = "connect" -> SendFamily
      [] r.op = "get_device_info" -> SendInfo
      [] r.op = "get_status" -> SendStatus
      [] r.op = "set_outlet" -> OutletMessage(r.args[1], r.args[2])

\* The call of r handed one command to the transport, addressed as its
\* operation fixes it: discovery to class "cv2" and the lowercased bridge
\* identifier, every other operation to the class and id the session holds
\* from discovery, which is never the bridge class.
Addressed(r) ==
    /\ Len(r.cmds) = 1
    /\ IF r.op = "connect"
       THEN DeviceAround(r.cmds[1], "cv2", "0a1b2c3d4e5f", BodyOf(r))
       ELSE /\ device_class # None /\ device_id # None /\ device_class # "cv2"
            /\ DeviceAround(r.cmds[1], device_class, device_id, BodyOf(r))

\* The text of command x is well-formed XML that reads back as its device
\* element with its class and id.
ReadsBack(x) == ~HasMarkup(x[1].attrs["class"]) /\ ~HasMarkup(x[1].attrs["id"])

\* C16 as stated: every command a call hands to the transport is one
\* well-formed device element carrying the class and id it is addressed to
\* around the command body, addressed as the operation fixes it.
C16_EveryCommandFramed ==
    [][\A t \in Tasks :
         (Calls(t) /\ tasks'[t].cmds # <<>>)
         => (Addressed(tasks'[t]) /\ ReadsBack(tasks'[t].cmds[1]))]_vars

\* C16 (amended): every command a call hands to the transport is the device
\* template filled with the class and id the operation fixes (discovery:
\* "cv2" and the lowercased bridge identifier; info, status and outlet-set:
\* the device_class and device_id recorded by discovery, never the bridge)
\* around the command body; it is one well-formed device element carrying
\* that class and id exactly when neither value holds a markup character,
\* since the template escapes nothing.
C16_FramedWhenPlain ==
    [][\A t \in Tasks :
         (Calls(t) /\ tasks'[t].cmds # <<>>)
         => /\ Addressed(tasks'[t])
            /\ ReadsBack(tasks'[t].cmds[1]) <=>
                  (tasks'[t].op = "connect" \/ ~HasMarkup(device_id))]_vars

\* An outlet command in flight, addressed to the discovered sub-device.
C16_Witness ==
    /\ tasks[1].op = "set_outlet" /\ tasks[1].pc = "sendto"
    /\ device_class = "kf1500" /\ device_id = "7"
    /\ DeviceAround(tasks[1].cmds[1], "kf1500", "7", OutletMessage(3, TRUE))

\* The four fields of the session.
Fields == <<device_class, device_id, device_type, firmware_version>>

\* Task t takes a step of its own call of `op`.
StepOf(t, op) == tasks'[t] # tasks[t] /\ tasks'[t].op = op

\* C17: a get_device_info() that was turned away undiscovered, got no
\* response or got one that is not well-formed XML returns {}; and no step
\* of a get_device_info() call other than its successful return changes a
\* field of the session: a failed call leaves firmware_version and the
\* identity as they were.
C17_InfoFailureKeepsSession ==
    [][\A t \in Tasks :
         /\ (Returns(t) /\ tasks'[t].op = "get_device_info" /\
             (tasks'[t].cmds = <<>> \/ ~Parsed(tasks'[t])))
            => (tasks'[t].pc = "done" /\ IsEmptyDict(tasks'[t].result[1]))
         /\ (StepOf(t, "get_device_info") /\ ~InfoSucceeds(t)) => Fields' = Fields]_vars

\* A get_device_info() on a session that holds a firmware version got a
\* response that does not parse: it returned {} and the version is kept.
C17_Witness ==
    /\ firmware_version = "1.0"
    /\ tasks[1].op = "get_device_info" /\ tasks[1].pc = "done"
    /\ tasks[1].response[1].kind = "str" /\ ~tasks[1].response[1].empty
    /\ ~tasks[1].response[1].wellformed
    /\ IsEmptyDict(tasks[1].result[1])

\* C18: no step of a get_status() or set_outlet() call, from the call to the
\* moment the caller has taken its result, changes device_class, device_id,
\* device_type or firmware_version, whatever the outcome; the snapshot and
\* the command result leave with the caller.
C18_StatusAndOutletKeepSession ==
    [][\A t \in Tasks :
         (tasks'[t] # tasks[t] /\
          ({tasks[t].op, tasks'[t].op} \cap {"get_status", "set_outlet"}) # {})
         => (Fields' = Fields /\ connected' = connected)]_vars

\* A get_status() on a session with identity and firmware version has
\* returned a snapshot, and the session holds what it held.
C18_Witness ==
    /\ StatusDecoded(tasks[1]) /\ DOMAIN tasks[1].result[1]["outlets"] = {1, 2}
    /\ device_class = "km4315" /\ device_id = "42" /\ device_type = DEVICE_TYPE_M4315
    /\ firmware_version = "2.0"

\* C19: a call opens at most one socket, sends at most one datagram and
\* makes at most one receive; it goes from its send to its receive and from
\* either to its end, and once an exchange has ended (in a response, a
\* timeout or an error) the call sends and receives nothing more.
C19_OneExchange ==
    /\ [](\A t \in Tasks :
            tasks[t].opened <= 1 /\ Len(tasks[t].sent) <= 1 /\ tasks[t].recvs <= 1)
    /\ [][\A t \in Tasks :
            /\ (tasks[t].pc = "sendto" /\ tasks'[t] # tasks[t])
               => tasks'[t].pc \in {"recvfrom", "done", "raised", "cancelled"}
            /\ (tasks[t].pc = "recvfrom" /\ tasks'[t] # tasks[t])
               => tasks'[t].pc \in {"done", "raised", "cancelled"}
            /\ (tasks[t].pc \in {"done", "raised", "cancelled"} /\ tasks'[t] # tasks[t])
               => tasks'[t] = IdleTask]_vars

\* A get_device_info() whose receive timed out has returned {} after one
\* socket, one datagram and one receive.
C19_Witness ==
    /\ tasks[1].op = "get_device_info" /\ tasks[1].pc = "done"
    /\ tasks[1].response = <<NoResponse>> /\ IsEmptyDict(tasks[1].result[1])
    /\ tasks[1].opened = 1 /\ Len(tasks[1].sent) = 1 /\ tasks[1].recvs = 1
    /\ tasks[1].sock = "closed"

\* C20: every call that has started its exchange comes to its end, whatever
\* the bridge does: it returns a result after at most one receive, unless
\* its caller cancels it first; it is never left suspended and never left
\* by an exception.
C20_EventuallyReturns ==
    /\ \A t \in Tasks :
          (tasks[t].pc \in {"sendto", "recvfrom"}) ~>
              (tasks[t].pc \in {"done", "cancelled"} /\ tasks[t].recvs <= 1)
    /\ [](\A t \in Tasks : tasks[t].pc = "done" => tasks[t].result # <<>>)

\* A set_outlet() whose wait ended in a datagram that is not well-formed XML
\* has returned False.
C20_Witness ==
    /\ tasks[1].op = "set_outlet" /\ tasks[1].pc = "done" /\ tasks[1].recvs = 1
    /\ tasks[1].response[1].kind = "str" /\ ~tasks[1].response[1].empty
    /\ ~tasks[1].response[1].wellformed
    /\ tasks[1].result = <<FALSE>>

\* The identities a discovery can record from document doc: the class tag and
\* the identifier text of one sub-device element, with the family of the class.
RecordableFrom(doc) ==
    {<<doc[p[1]].attrs["class"], doc[p[2]].text, DEVICE_CLASS_MAP[doc[p[1]].attrs["class"]]>> :
        p \in {q \in (2..Len(doc)) \X (2..Len(doc)) :
                  Identified(doc, q[1]) /\ FirstK(doc, q[1], q[2])}}

\* The identities a discovery can record from the responses of the
\* interleaved specification.
Recordable ==
    UNION {RecordableFrom(o.text.doc) :
             o \in {x \in ConcurrentOutcomes : x.kind = "data" /\ x.text.wellformed}}

\* C21: with operations interleaved at their awaits, every info, status and
\* outlet command handed to the transport is addressed to a class and an
\* identifier that one discovery recorded together, and a set_outlet has
\* validated its outlet id against the capacity of the family of that same
\* class; no command mixes two discoveries.
C21_CommandOfOneDiscovery ==
    \A t \in Tasks :
        LET r == tasks[t] IN
        (r.op \in {"get_device_info", "get_status", "set_outlet"} /\ r.cmds # <<>>) =>
            \E id \in Recordable :
                /\ r.cmds[1][1].attrs = [class |-> id[1], id |-> id[2]]
                /\ r.op = "set_outlet" =>
                      /\ r.dtype = id[3]
                      /\ 1 <= r.args[1] /\ r.args[1] <= Capacity(id[3])

\* While a set_outlet(5, _) validated against the eight outlets of the M4315
\* discovered first waits for its response, a rediscovery has recorded the
\* four-bank F1500.
C21_Witness ==
    /\ tasks[1].op = "set_outlet" /\ tasks[1].pc = "recvfrom" /\ tasks[1].args[1] = 5
    /\ tasks[1].cmds[1][1].attrs = [class |-> "km4315", id |-> "42"]
    /\ tasks[2].op = "connect" /\ tasks[2].pc = "done" /\ tasks[2].result = <<TRUE>>
    /\ device_class = "kf1500" /\ device_id = "7" /\ device_type = DEVICE_TYPE_F1500

\* Profile `family` defines exactly one of the two counts.
ExactlyOneCount(family) ==
    ("outlets" \in DOMAIN DEVICE_CONFIG[family]) # ("outlet_banks" \in DOMAIN DEVICE_CONFIG[family])

\* C22: every profile of the static table defines exactly one of an outlet
\* count and an outlet-bank count; every family of the class lookup table
\* has a profile; so the family a discovery records has a profile, and the
\* capacity a set_outlet validates against is that profile's own count,
\* never the fallback.
C22_ProfilesExactlyOne ==
    /\ \A family \in DOMAIN DEVICE_CONFIG : ExactlyOneCount(family)
    /\ \A c \in DOMAIN DEVICE_CLASS_MAP : DEVICE_CLASS_MAP[c] \in DOMAIN DEVICE_CONFIG
    /\ device_type # None => device_type \in DOMAIN DEVICE_CONFIG
    /\ \A t \in Tasks :
          (tasks[t].op = "set_outlet" /\ tasks[t].dtype # None) =>
              /\ tasks[t].dtype \in DOMAIN DEVICE_CONFIG
              /\ ExactlyOneCount(tasks[t].dtype)
              /\ MaxOutlets(tasks[t].dtype) = Capacity(tasks[t].dtype)

\* A set_outlet(5, _) on a discovered MB1500 was turned away by the four
\* banks of its profile; the fallback of 8 would have let it through.
C22_Witness ==
    /\ device_type = DEVICE_TYPE_MB1500
    /\ tasks[1].op = "set_outlet" /\ tasks[1].dtype = DEVICE_TYPE_MB1500
    /\ tasks[1].args[1] = 5 /\ tasks[1].pc = "done"
    /\ tasks[1].result = <<FALSE>> /\ tasks[1].cmds = <<>>

\* The operations async_setup_entry calls, in the order of its code.
SetupCalls == <<"connect", "get_device_info", "get_status">>

\* C23: the setup calls connect() first and once, get_device_info() once and
\* only after connect() has returned True, and the first status poll only
\* after get_device_info() has returned; when connect() returns False the
\* setup has failed, having called nothing else, sent no information,
\* status or outlet command, and registered no coordinator.
C23_SetupOrder ==
    /\ Len(entry.calls) <= 3
    /\ entry.calls = SubSeq(SetupCalls, 1, Len(entry.calls))
    /\ Len(entry.calls) >= 2 => (connected /\ \A t \in Tasks : owner[t].kind # "connect")
    /\ Len(entry.calls) >= 3 => \A t \in Tasks : owner[t].kind # "info"
    /\ coordinator.registered => entry.calls = SetupCalls
    /\ \A t \in Tasks :
          (tasks[t].op = "connect" /\ tasks[t].pc = "done" /\ ~tasks[t].result[1])
              => entry.pc = "failed"
    /\ entry.pc = "failed" =>
          /\ entry.calls = <<"connect">>
          /\ ~coordinator.registered
          /\ \A t \in Tasks : tasks[t].op \in {"none", "connect"}

\* connect() returned True, then the information was read, then the first
\* poll succeeded and the coordinator was registered.
C23_Witness ==
    /\ entry.pc = "loaded" /\ entry.calls = SetupCalls
    /\ connected /\ coordinator.registered

\* A get_status() returns to the coordinator in this step.
StatusReturns(t) ==
    tasks[t].pc # "done" /\ tasks'[t].pc = "done" /\ tasks'[t].op = "get_status"

\* A step publishes as the coordinator must.
PublishesAsReturned ==
    /\ \A t \in Tasks : StatusReturns(t) =>
          IF DOMAIN tasks'[t].result[1] = {}
          THEN /\ coordinator'.data = coordinator.data
               /\ ~coordinator'.last_update_success
          ELSE /\ coordinator'.data = tasks'[t].result
               /\ coordinator'.last_update_success
    /\ (\A t \in Tasks : ~StatusReturns(t)) => coordinator'.data = coordinator.data
    /\ coordinator'.data # <<>> =>
          (DOMAIN BaseFields \cup {"outlets"}) \subseteq DOMAIN coordinator'.data[1]

\* C24: the data the coordinator publishes is never an empty status: when
\* a get_status() returns an empty result the update is reported failed and
\* the data stays what it was; otherwise the data becomes the snapshot that
\* get_status() returned, which has every base field and the outlets.
C24_NeverPublishesEmpty == [][PublishesAsReturned]_vars

\* A poll after a successful one came back empty: the update is marked
\* failed and the earlier snapshot is still the published data.
C24_Witness ==
    /\ coordinator.registered /\ ~coordinator.last_update_success
    /\ coordinator.data # <<>>
    /\ \E t \in Tasks : tasks[t].op = "get_status" /\ tasks[t].pc = "done"
                         /\ tasks[t].result = <<EmptyDict>>

\* C25: whenever a turn-on or turn-off command has set the pending state of
\* the switch, and every set_outlet call returns, the pending state is
\* eventually cleared with a status refresh requested; and once the
\* commands have stopped the pending state stays cleared.
C25_PendingEventuallyCleared ==
    /\ (switch.pending_state # <<>>) ~> (switch.pending_state = <<>> /\ coordinator.refresh)
    /\ <>[](switch.pending_state = <<>>)

\* Two commands have been given, the second while the task of the first
\* slept; the task of the second has cleared the pending state and asked
\* for the refresh.
C25_Witness ==
    /\ switch.issued = 2 /\ switch.cleared = <<2, 2>>
    /\ switch.pending_state = <<>> /\ switch.sleepers = {}
    /\ coordinator.refresh

\* C26: under any interleaving of the commands of the switch at most one
\* clear-pending task is outstanding, and a pending state is cleared only
\* by the task of the command that set it, never by the task of an
\* earlier command.
C26_OneClearTask ==
    /\ Cardinality(switch.sleepers) <= 1
    /\ switch.cleared # <<>> => switch.cleared[1] = switch.cleared[2]

====
